---- MODULE Spec2Model ----
(***************************************************************************)
(* Model of assignment-1/problem-2/clustershell_client.c: the clustershell *)
(* node agent.  After fork() two processes run concurrently: the parent    *)
(* runs shell_handler on the command connection, the child runs            *)
(* request_handler on accepted request connections; each kills the other   *)
(* with SIGUSR1 before it exits.                                           *)
(*                                                                         *)
(* Byte strings are kept run-length encoded: a sequence of runs            *)
(* [b |-> byte, n |-> count], so that a 100000-byte payload is one run.    *)
(* A byte is a one-character string, "NL" for '\n' and "NUL" for '\0'.     *)
(***************************************************************************)
EXTENDS Integers, Sequences, FiniteSets, TLC

\* ------------------------------------------------------------------------
\* Program constants
\* ------------------------------------------------------------------------
HEADER_SIZE == 6

\* pid of the parent (getppid() in the child) and of the child (fork()'s
\* return value in the parent); fork() returns 0 in the child.
ParentPid == 100
ChildPid == 101

\* ------------------------------------------------------------------------
\* Byte strings
\* ------------------------------------------------------------------------
NUL == "NUL"
NL == "NL"

Run(b, n) == [b |-> b, n |-> n]

\* the n-byte string b b b ... b
Fill(b, n) == IF n <= 0 THEN <<>> ELSE <<Run(b, n)>>

\* a plain sequence of bytes as a byte string
Bytes(seq) == [i \in 1..Len(seq) |-> Run(seq[i], 1)]

RECURSIVE BLen(_)
\* number of bytes of a byte string
BLen(s) == IF s = <<>> THEN 0 ELSE Head(s).n + BLen(Tail(s))

RECURSIVE Norm(_)
\* canonical form: adjacent runs of the same byte merged
Norm(s) ==
    IF Len(s) <= 1 THEN s
    ELSE IF s[1].b = s[2].b
         THEN Norm(<<Run(s[1].b, s[1].n + s[2].n)>> \o SubSeq(s, 3, Len(s)))
         ELSE <<s[1]>> \o Norm(Tail(s))

Cat(s, t) == Norm(s \o t)

RECURSIVE TakeBytes(_, _)
\* the first k bytes of s (all of s when it is shorter)
TakeBytes(s, k) ==
    IF k <= 0 \/ s = <<>> THEN <<>>
    ELSE IF Head(s).n <= k
         THEN <<Head(s)>> \o TakeBytes(Tail(s), k - Head(s).n)
         ELSE <<Run(Head(s).b, k)>>

RECURSIVE DropBytes(_, _)
\* s without its first k bytes
DropBytes(s, k) ==
    IF k <= 0 \/ s = <<>> THEN s
    ELSE IF Head(s).n <= k
         THEN DropBytes(Tail(s), k - Head(s).n)
         ELSE <<Run(Head(s).b, Head(s).n - k)>> \o Tail(s)

\* the byte at 0-based index i, as the C code indexes a buffer
ByteAt(s, i) == DropBytes(s, i)[1].b

RECURSIVE Expand(_)
\* a (short) byte string as a plain sequence of bytes
Expand(s) ==
    IF s = <<>> THEN <<>>
    ELSE IF Head(s).n = 1 THEN <<Head(s).b>> \o Expand(Tail(s))
         ELSE <<Head(s).b>> \o Expand(<<Run(Head(s).b, Head(s).n - 1)>> \o Tail(s))

RECURSIVE CStr(_)
\* what the C string functions see in a buffer: the bytes before the first
\* zero byte
CStr(s) ==
    IF s = <<>> \/ Head(s).b = NUL THEN <<>>
    ELSE <<Head(s)>> \o CStr(Tail(s))

\* strlen()
strlen(s) == BLen(CStr(s))

\* strcmp(a, b) == 0
StrEq(a, b) == Norm(CStr(a)) = Norm(CStr(b))

\* ------------------------------------------------------------------------
\* Wire codec: get_header_str and the decoding done inline by the handlers
\* ------------------------------------------------------------------------
DigitChar == <<"0", "1", "2", "3", "4", "5", "6", "7", "8", "9">>

IsDigit(c) == \E d \in 1..10 : DigitChar[d] = c

DigitVal(c) == (CHOOSE d \in 1..10 : DigitChar[d] = c) - 1

\* isspace()
IsSpace(c) == c \in {" ", NL, "TAB"}

RECURSIVE sprintf_d(_)
\* sprintf "%d" of a non-negative int
sprintf_d(n) ==
    IF n < 10 THEN <<DigitChar[n + 1]>>
    ELSE sprintf_d(n \div 10) \o <<DigitChar[(n % 10) + 1]>>

RECURSIVE DivCount(_)
\* the loop of get_header_str: while (s != 0) { s = s/10; num_length++; }
DivCount(s) == IF s = 0 THEN 0 ELSE 1 + DivCount(s \div 10)

\* num_length without the size == 0 case of lines 160-161: the round trip of
\* the header of an empty payload tells it from NumLength
NumLength_nozero(size) == DivCount(size)

\* num_length as get_header_str computes it
NumLength(size) == IF size = 0 THEN 1 ELSE DivCount(size)

\* the test that makes get_header_str kill the sibling and exit
HeaderTooLong(size) == NumLength(size) > HEADER_SIZE - 1

\* the zeroes string of get_header_str
Zeroes(size) == [i \in 1..(HEADER_SIZE - NumLength(size) - 1) |-> "0"]

\* the header get_header_str returns (when it returns): sprintf "%s%s%d"
get_header_str(co, size) == <<co>> \o Zeroes(size) \o sprintf_d(size)

RECURSIVE SkipSpace(_)
SkipSpace(s) == IF s # <<>> /\ IsSpace(Head(s)) THEN SkipSpace(Tail(s)) ELSE s

RECURSIVE AccDigits(_, _)
AccDigits(s, acc) ==
    IF s # <<>> /\ IsDigit(Head(s))
    THEN AccDigits(Tail(s), 10 * acc + DigitVal(Head(s)))
    ELSE acc

\* atoi() of the bytes of a NUL-terminated buffer: leading white space, an
\* optional sign, then digits up to the first byte that is not a digit
atoi(s) ==
    LET t == SkipSpace(s)
        signed == t # <<>> /\ Head(t) \in {"-", "+"}
        v == AccDigits(IF signed THEN Tail(t) ELSE t, 0)
    IN IF signed /\ Head(t) = "-" THEN 0 - v ELSE v

\* the tag the handlers test: hdr[0]
HeaderTag(hdr) == hdr[1]

\* the length the handlers derive: atoi(hdr + 1), hdr[HEADER_SIZE] = '\0'
HeaderLength(hdr) == atoi(SubSeq(hdr, 2, HEADER_SIZE))

\* ------------------------------------------------------------------------
\* Bounds of the model and the inputs the environment may supply
\* ------------------------------------------------------------------------
\* lines the operator types when the coordinator opens no request connection
MaxLines == 2
\* request connections the coordinator opens when the operator types nothing
MaxConns == 2
\* length of the long operator line and of the long subprocess output
BigLen == 100000
\* largest size the codec specification encodes
MaxCodecSize == 100010
\* length of the long request input, more than a pipe's buffer holds
BigInput == 70000

\* a pipe's buffer capacity: write(p[1], ...) with nobody reading blocks
\* beyond it
PipeCapacity == 65536
\* sizeof(tmp_buffer)
TmpBufferSize == 200

\* the most bytes one fgets(tmp_buffer, sizeof(tmp_buffer), ...) call stores
FgetsMax == TmpBufferSize - 1

\* what the environment will do in a run: how many lines the operator
\* types, how many request connections the coordinator opens, and whether
\* the network may hand a peer's bytes to read() in several segments.
\* Either one channel is exercised at length over a network that splits
\* messages, or both channels with one exchange each over a network that
\* delivers each message whole.
Plans ==
    { [lines |-> MaxLines, conns |-> 0, segmented |-> TRUE],
      [lines |-> 0, conns |-> MaxConns, segmented |-> TRUE],
      [lines |-> 1, conns |-> 1, segmented |-> FALSE] }

\* tags and sizes the codec specification encodes
Tags == {"c", "o", "i"}

CodecSizes == 0..MaxCodecSize

\* lines the operator may type (getline keeps the trailing newline)
OperatorLines ==
    { <<Run(NL, 1)>>,
      Bytes(<<"e", "x", "i", "t", NL>>),
      Bytes(<<"a", NL>>),
      Bytes(<<"a", NUL, "b", NL>>),
      Cat(Fill("a", BigLen), <<Run(NL, 1)>>) }

\* a last line that ends at end-of-file, without a newline
UnterminatedLines == { Bytes(<<"a", "b">>) }

\* what the coordinator may send on the command connection in answer to a
\* command frame, and what becomes of the connection afterwards: it stays
\* open, the coordinator closes it, or it is reset
ReplyScripts ==
    { [bytes |-> <<"o", "0", "0", "0", "0", "2", "h", "i">>, fate |-> "open"],
      [bytes |-> <<"x", "0", "0", "0", "0", "0">>, fate |-> "open"],
      [bytes |-> <<"o", "-", "0", "0", "0", "1">>, fate |-> "open"],
      [bytes |-> <<"o", "0", "0", "0", "0", "2", "h">>, fate |-> "closed"],
      [bytes |-> <<"o", "0", "0", "0", "0", "0">>, fate |-> "reset"],
      [bytes |-> <<>>, fate |-> "reset"] }

\* what the coordinator may send on a request connection: a well-formed
\* request, requests with a wrong tag, a request cut after its first header,
\* the cd built-in with a directory that exists and with one that does not,
\* a header with a sign among its digits, an input longer than a pipe's
\* buffer, and connections that are closed or reset
RequestScripts ==
    { [bytes |-> Bytes(<<"c", "0", "0", "0", "0", "2", "i", "0", "0", "0", "0",
                         "1", "x", "l", "s">>), fate |-> "open"],
      [bytes |-> Bytes(<<"x", "0", "0", "0", "0", "1", "i", "0", "0", "0", "0",
                         "0", "a">>), fate |-> "open"],
      [bytes |-> Bytes(<<"x", "0", "0", "0", "0", "1">>), fate |-> "open"],
      [bytes |-> Bytes(<<"c", "0", "0", "0", "0", "1", "x", "0", "0", "0", "0",
                         "0", "a">>), fate |-> "open"],
      [bytes |-> Bytes(<<"c", "0", "0", "0", "0", "4", "i", "0", "0", "0", "0",
                         "0", "c", "d", " ", "d">>), fate |-> "open"],
      [bytes |-> Bytes(<<"c", "0", "0", "0", "0", "4", "i", "0", "0", "0", "0",
                         "0", "c", "d", " ", "x">>), fate |-> "open"],
      [bytes |-> Bytes(<<"c", "0", "0", "0", "0", "2", "i", "+", "0", "0", "0",
                         "1", "x", "l", "s">>), fate |-> "open"],
      [bytes |-> Bytes(get_header_str("c", 2)) \o Bytes(get_header_str("i", BigInput))
                   \o Fill("a", BigInput) \o Bytes(<<"l", "s">>),
       fate |-> "open"],
      [bytes |-> Bytes(<<"c", "0", "0", "0", "0", "2", "i", "0", "0", "0", "0",
                         "0", "l", "s">>), fate |-> "reset"],
      [bytes |-> <<>>, fate |-> "closed"],
      [bytes |-> <<>>, fate |-> "reset"] }

\* what a launched subprocess may write to its standard output
SubprocessOutputs ==
    { <<>>,
      Bytes(<<"h", NL>>),
      Bytes(<<"a", NUL, "b">>),
      Fill("a", BigLen) }

\* directories chdir() succeeds on
ValidDirs == { Bytes(<<"d">>) }

\* values an uninitialised heap byte may turn out to hold
GarbageBytes == {"c", "i", "o"}

\* ------------------------------------------------------------------------
\* State
\* ------------------------------------------------------------------------
VARIABLES
    pc,          \* where each process is: [pid -> label]
    sigusr1,     \* pids with a SIGUSR1 pending
    exit_cause,  \* which exit path each process took ("" while it runs)
    stdin_eof,   \* the operator's standard input has reached end-of-file
    lines_left,  \* lines the operator will still type
    cmd_line,    \* shell_handler: the line getline() stored last
    conns_left,  \* request connections the coordinator will still open
    msg,         \* [pid -> the frame the process is about to write]
    output_size, \* shell_handler: atoi(output_hdr+1)
    srv,         \* command connection: bytes the coordinator has sent that
                 \* are still unread, command frames it still owes an answer,
                 \* and the connection's fate once those bytes are read
    req,         \* request connection: the coordinator's bytes, those of
                 \* them not read yet, and the connection's fate
    cmd_hdr,     \* request_handler: the first header buffer
    inp_hdr,     \* request_handler: the second header buffer
    inp_size,    \* request_handler: atoi(inp_hdr+1)
    inp,         \* request_handler: the input buffer
    cmd,         \* request_handler: the command buffer
    cwd,         \* the child's working directory
    last_write,  \* [pid -> the write() of the process's current exchange]
    short,       \* [pid -> a read() of the current exchange returned fewer
                 \*  bytes than asked, or failed]
    unread,      \* bytes of the latest reply frame shell_handler left unread
    conn,        \* request_handler: accepted connections and their service
    engine,      \* the arguments of the execute_on_current_node call of the
                 \* current exchange
    segmented,   \* the network may split what a peer sent (fixed at the start)
    encTag, encSize, encOut, decOut   \* the codec specification's state

vars == <<pc, sigusr1, exit_cause, stdin_eof, lines_left, cmd_line, conns_left,
          msg, output_size, srv, req, cmd_hdr, inp_hdr, inp_size, inp, cmd, cwd,
          last_write, short, unread, engine, conn, segmented, encTag, encSize,
          encOut, decOut>>

codecVars == <<encTag, encSize, encOut, decOut>>

\* what no step of the agent changes
fixedVars == <<codecVars, segmented>>

agentVars == <<pc, sigusr1, exit_cause, stdin_eof, lines_left, cmd_line,
               conns_left, msg, output_size, srv, req, cmd_hdr, inp_hdr, inp_size,
               inp, cmd, cwd,
               last_write, short, unread, engine, conn, segmented>>

shellVars == <<stdin_eof, lines_left, cmd_line, output_size, srv, unread>>

reqVars == <<conns_left, req, cmd_hdr, inp_hdr, inp_size, inp, cmd, cwd, engine,
            conn>>

Procs == {ParentPid, ChildPid}

Alive(p) == pc[p] \notin {"Terminated", "Crashed"}

NoWrite == [msg |-> <<>>, len |-> 0, ret |-> 0]

\* no execute_on_current_node call on the current connection yet.  A call
\* records its arguments, whether it got to popen() (launched), in which
\* directory, what the subprocess then read from the pipe and wrote to its
\* standard output, and whether and what the call returned
NoOutput == [null |-> TRUE, str |-> <<>>]

NoCall == [called |-> FALSE, input |-> <<>>, command |-> <<>>,
           launched |-> FALSE, dir |-> <<>>, stdin |-> <<>>, written |-> <<>>,
           returned |-> FALSE, output |-> NoOutput]

\* accepted connections not closed yet, and the engine calls and the whole
\* output frames of the latest one
NoService == [open |-> 0, calls |-> 0, frames |-> 0]

NoConn == [stream |-> <<>>, rest |-> <<>>, fate |-> "open"]

\* the state right after fork() has returned in both processes, with the
\* environment's plan
AgentStart(plan) ==
    /\ pc = (ParentPid :> "AwaitingInput") @@ (ChildPid :> "Listening")
    /\ sigusr1 = {}
    /\ exit_cause = (ParentPid :> "") @@ (ChildPid :> "")
    /\ stdin_eof = FALSE
    /\ lines_left = plan.lines
    /\ cmd_line = <<>>
    /\ conns_left = plan.conns
    /\ msg = (ParentPid :> <<>>) @@ (ChildPid :> <<>>)
    /\ output_size = 0
    /\ srv = [stream |-> <<>>, owed |-> 0, fate |-> "open"]
    /\ req = NoConn
    /\ cmd_hdr = <<>>
    /\ inp_hdr = <<>>
    /\ inp_size = 0
    /\ inp = <<>>
    /\ cmd = <<>>
    /\ cwd = Bytes(<<"h">>)
    /\ last_write = (ParentPid :> NoWrite) @@ (ChildPid :> NoWrite)
    /\ short = (ParentPid :> FALSE) @@ (ChildPid :> FALSE)
    /\ unread = 0
    /\ engine = NoCall
    /\ conn = NoService
    /\ segmented = plan.segmented

InitAgent == \E plan \in Plans : AgentStart(plan)

InitCodecIdle ==
    /\ encTag = "c"
    /\ encSize = 0
    /\ encOut = <<>>
    /\ decOut = <<>>

Init == InitAgent /\ InitCodecIdle

\* ------------------------------------------------------------------------
\* Processes, signals, read() and write()
\* ------------------------------------------------------------------------
Min(a, b) == IF a < b THEN a ELSE b

Max(a, b) == IF a < b THEN b ELSE a

\* the global child_pid as each process sees it: fork()'s return value
child_pid(self) == IF self = ParentPid THEN ChildPid ELSE 0

getpid(self) == self

\* only the child calls getppid()
getppid(self) == ParentPid

\* kill() signalling only a process whose pid is the argument: with it the
\* child's kill(child_pid, SIGUSR1), child_pid = 0, would reach nobody
KillTargets_single(pid) == {pid} \cap Procs

\* the processes kill(pid, SIGUSR1) signals: pid 0 is the caller's whole
\* process group, which holds the parent and the child
KillTargets(pid) == IF pid = 0 THEN Procs ELSE {pid}

\* the process get_header_str signals before it exits
HeaderKillPid(self) ==
    IF getpid(self) = child_pid(self) THEN getppid(self) ELSE child_pid(self)

\* kill(pid, SIGUSR1); exit(1) in process self
Exit(self, cause, pid) ==
    /\ pc' = [pc EXCEPT ![self] = "Terminated"]
    /\ exit_cause' = [exit_cause EXCEPT ![self] = cause]
    /\ sigusr1' = (sigusr1 \cup {t \in KillTargets(pid) : Alive(t)}) \ {self}

\* the process dies of SIGSEGV: no handler of its own runs, nobody is signalled
Crash(self) ==
    /\ pc' = [pc EXCEPT ![self] = "Crashed"]
    /\ exit_cause' = [exit_cause EXCEPT ![self] = "SIGSEGV"]
    /\ sigusr1' = sigusr1 \ {self}

\* the process dies of SIGPIPE, which main leaves at its default action:
\* no handler of its own runs, nobody is signalled
SigPipe(self) ==
    /\ pc' = [pc EXCEPT ![self] = "Crashed"]
    /\ exit_cause' = [exit_cause EXCEPT ![self] = "SIGPIPE"]
    /\ sigusr1' = sigusr1 \ {self}

Goto(self, label) ==
    /\ pc' = [pc EXCEPT ![self] = label]
    /\ UNCHANGED <<exit_cause, sigusr1>>

\* a handler that returns instead of exiting: the signal is consumed and the
\* process goes on
sigusr1_handler_ignore(self) ==
    /\ self \in sigusr1
    /\ Alive(self)
    /\ sigusr1' = sigusr1 \ {self}
    /\ UNCHANGED <<pc, exit_cause, msg, last_write, short, shellVars, reqVars,
                   fixedVars>>

\* sigusr1_handler: exit(1)
sigusr1_handler(self) ==
    /\ self \in sigusr1
    /\ Alive(self)
    /\ pc' = [pc EXCEPT ![self] = "Terminated"]
    /\ exit_cause' = [exit_cause EXCEPT ![self] = "SIGUSR1"]
    /\ sigusr1' = sigusr1 \ {self}
    /\ UNCHANGED <<msg, last_write, short, shellVars, reqVars, fixedVars>>

\* an int passed as read()'s size_t count: a negative int becomes a count
\* beyond any number of bytes a connection holds (read() itself transfers
\* at most 0x7ffff000 bytes)
AsSizeT(n) == IF n < 0 THEN 2147479552 ELSE n

\* read(fd, buf, n) on a connection whose peer has `rem` bytes left for us:
\* it returns at once for n = 0, and else waits for bytes or for the end of
\* the connection
ReadReady(n, rem, fate) == n = 0 \/ rem > 0 \/ fate # "open"

\* what read(fd, buf, n) may return: however many of the peer's bytes have
\* arrived by now, at least 1 and at most n (all of them, or, where the
\* network splits messages, one of them or all but one); 0 at end of
\* stream; -1 on a reset connection
ReadRets(n, rem, fate) ==
    IF n = 0 THEN {0}
    ELSE IF rem > 0
         THEN LET most == Min(AsSizeT(n), rem)
              IN {most} \cup {k \in {1, most - 1} : segmented /\ 0 < k /\ k < most}
    ELSE IF fate = "reset" THEN {0 - 1}
    ELSE {0}

\* a tag test that accepts every tag
TagOk_any(hdr, tag) == TRUE

\* the tag tests: output_hdr[0] == 'o', inp_hdr[0] == 'i', cmd_hdr[0] == 'c'
TagOk(hdr, tag) == HeaderTag(hdr) = tag

\* the test after the header reads: bytes_read < 0
ReadFatal(bytes_read) == bytes_read < 0

\* the values the bytes of a buffer that read() did not fill may hold
GarbageFor(ret, n) == IF Max(ret, 0) < n THEN GarbageBytes ELSE {NUL}

\* a HEADER_SIZE buffer after a read() that stored data: the rest of the
\* malloc()ed bytes are whatever they were
HeaderBuffer(data, g) == data \o [i \in 1..(HEADER_SIZE - Len(data)) |-> g]

\* a malloc(size+1) buffer after a read() that stored data and after
\* buf[size] = '\0'
BodyBuffer(data, size, g) == Cat(data, Fill(g, size - BLen(data)))

\* write() on a connection that the peer has closed and then reset, or whose
\* reset an earlier unchecked read() has already reported, fails with EPIPE,
\* and the kernel sends the writer SIGPIPE
WriteRaisesSigPipe(fate) == fate = "reset"

\* what write(fd, msg, len) may return
PartialCounts(len) == {k \in {1, len - 1} : 0 < k /\ k < len}

WriteResults(len) == {len, 0 - 1} \cup PartialCounts(len)

\* the two fatal tests after write(): bytes_sent < 0, bytes_sent < strlen(msg)
WriteFatal(ret, len) == ret < 0 \/ ret < len

\* ------------------------------------------------------------------------
\* shell_handler (the parent)
\* ------------------------------------------------------------------------
\* a variant of the loop that takes the end of the input for the exit
\* command
ShellNoLine_exit ==
    /\ Exit(ParentPid, "eof", child_pid(ParentPid))
    /\ UNCHANGED msg

\* `continue` with nothing sent, when cmd_inp_len <= 0 or the line is a
\* lone newline: lines 194-196
ShellNoLine == UNCHANGED <<pc, exit_cause, sigusr1, msg>>

\* getline() returned `line` (cmd_inp_len = its length, > 0): lines 194-210
ShellLine(line) ==
    LET cmd_inp_len == BLen(line)
        cmd_buff == TakeBytes(line, cmd_inp_len - 1)
    IN IF cmd_inp_len = 1 /\ ByteAt(line, 0) = NL
       THEN ShellNoLine
       ELSE IF StrEq(cmd_buff, Bytes(<<"e", "x", "i", "t">>))
       THEN /\ Exit(ParentPid, "exit", child_pid(ParentPid))
            /\ UNCHANGED msg
       ELSE IF HeaderTooLong(cmd_inp_len - 1)
       THEN /\ Exit(ParentPid, "too long", HeaderKillPid(ParentPid))
            /\ UNCHANGED msg
       ELSE /\ Goto(ParentPid, "Sending")
            /\ msg' = [msg EXCEPT ![ParentPid] =
                         Cat(Bytes(get_header_str("c", cmd_inp_len - 1)),
                             CStr(cmd_buff))]

\* the prompt and getline(): a line, or -1 at end-of-file (lines 186-197)
shell_getline ==
    /\ pc[ParentPid] = "AwaitingInput"
    /\ \/ /\ ~stdin_eof
          /\ lines_left > 0
          /\ \E line \in OperatorLines : ShellLine(line) /\ cmd_line' = line
          /\ lines_left' = lines_left - 1
          /\ UNCHANGED stdin_eof
       \/ /\ ~stdin_eof
          /\ lines_left > 0
          /\ \E line \in UnterminatedLines : ShellLine(line) /\ cmd_line' = line
          /\ lines_left' = 0
          /\ stdin_eof' = TRUE
       \/ /\ stdin_eof' = TRUE
          /\ lines_left' = 0
          /\ cmd_line' = <<>>
          /\ ShellNoLine
    /\ last_write' = [last_write EXCEPT ![ParentPid] = NoWrite]
    /\ short' = [short EXCEPT ![ParentPid] = FALSE]
    /\ UNCHANGED <<output_size, srv, unread, reqVars, fixedVars>>

\* write (serv_fd, msg, strlen(msg)) and its two tests: lines 212-225
shell_write ==
    /\ pc[ParentPid] = "Sending"
    /\ LET m == msg[ParentPid]
       IN \/ \E ret \in WriteResults(strlen(m)) :
               /\ last_write' = [last_write EXCEPT ![ParentPid] =
                                   [msg |-> TakeBytes(m, ret), len |-> strlen(m),
                                    ret |-> ret]]
               /\ IF WriteFatal(ret, strlen(m))
                  THEN /\ Exit(ParentPid,
                               IF ret < 0 THEN "write" ELSE "partial write",
                               child_pid(ParentPid))
                       /\ UNCHANGED srv
                  ELSE /\ Goto(ParentPid, "AwaitingReply")
                       /\ srv' = [srv EXCEPT !.owed = @ + 1]
          \/ /\ WriteRaisesSigPipe(srv.fate)
             /\ last_write' = [last_write EXCEPT ![ParentPid] =
                                 [msg |-> <<>>, len |-> strlen(m), ret |-> 0 - 1]]
             /\ SigPipe(ParentPid)
             /\ UNCHANGED srv
    /\ msg' = [msg EXCEPT ![ParentPid] = <<>>]
    /\ UNCHANGED <<stdin_eof, lines_left, cmd_line, output_size, short, unread,
                   reqVars, fixedVars>>

\* read (serv_fd, output_hdr, HEADER_SIZE) and the tag test: lines 228-252
shell_read_header ==
    /\ pc[ParentPid] = "AwaitingReply"
    /\ ReadReady(HEADER_SIZE, Len(srv.stream), srv.fate)
    /\ \E bytes_read \in ReadRets(HEADER_SIZE, Len(srv.stream), srv.fate) :
         LET got == Max(bytes_read, 0)
         IN /\ srv' = [srv EXCEPT !.stream = SubSeq(@, got + 1, Len(@))]
            /\ short' = [short EXCEPT ![ParentPid] = @ \/ bytes_read < HEADER_SIZE]
            /\ unread' = HEADER_SIZE - got
            /\ IF ReadFatal(bytes_read)
               THEN /\ Exit(ParentPid, "read", child_pid(ParentPid))
                    /\ UNCHANGED output_size
               ELSE \E g \in GarbageFor(bytes_read, HEADER_SIZE) :
                      LET output_hdr == HeaderBuffer(SubSeq(srv.stream, 1, got), g)
                      IN IF TagOk(output_hdr, "o")
                         THEN /\ Goto(ParentPid, "ReadingReply")
                              /\ output_size' = HeaderLength(output_hdr)
                         ELSE /\ Exit(ParentPid, "tag", child_pid(ParentPid))
                              /\ UNCHANGED output_size
    /\ UNCHANGED <<stdin_eof, lines_left, cmd_line, msg, last_write, reqVars,
                   fixedVars>>

\* read (serv_fd, output, output_size), unchecked, and the printing of the
\* output: lines 241-261.  With a negative output_size, malloc(output_size+1)
\* is malloc(0) or fails and output[output_size] = '\0' writes outside the
\* buffer: the process dies of SIGSEGV or, for -1, may get away with it.
shell_read_output ==
    /\ pc[ParentPid] = "ReadingReply"
    /\ ReadReady(output_size, Len(srv.stream), srv.fate)
    /\ \E bytes_read \in ReadRets(output_size, Len(srv.stream), srv.fate) :
         LET got == Max(bytes_read, 0)
         IN /\ srv' = [srv EXCEPT !.stream = SubSeq(@, got + 1, Len(@))]
            /\ short' = [short EXCEPT ![ParentPid] =
                           @ \/ bytes_read < AsSizeT(output_size)]
            /\ unread' = unread + Max(output_size - got, 0)
    /\ IF output_size >= 0
       THEN Goto(ParentPid, "AwaitingInput")
       ELSE \/ Crash(ParentPid)
            \/ /\ output_size = 0 - 1
               /\ Goto(ParentPid, "AwaitingInput")
    /\ output_size' = 0
    /\ UNCHANGED <<stdin_eof, lines_left, cmd_line, msg, last_write, reqVars,
                   fixedVars>>

\* the coordinator answers a command frame on the command connection
coordinator_reply ==
    /\ Alive(ParentPid)
    /\ srv.owed > 0
    /\ srv.fate = "open"
    /\ \E r \in ReplyScripts :
         srv' = [stream |-> srv.stream \o r.bytes, owed |-> srv.owed - 1,
                 fate |-> r.fate]
    /\ UNCHANGED <<pc, exit_cause, sigusr1, stdin_eof, lines_left, cmd_line, msg,
                   output_size, last_write, short, unread, reqVars, fixedVars>>

\* ------------------------------------------------------------------------
\* execute_on_current_node
\* ------------------------------------------------------------------------
RECURSIVE FgetsLoop(_, _, _)
\* the fgets/strcpy loop over what the subprocess wrote: each fgets() call
\* stores bytes up to and including a newline, at most FgetsMax of them, and
\* strlen/strcpy then see only the bytes before the call's first zero byte.
\* room: bytes the current call may still store; cut: the call has stored a
\* zero byte.  A run of n equal bytes is taken in one step: a run of
\* newlines ends a call with each newline; any other run fills the current
\* call and then whole calls of FgetsMax bytes.
FgetsLoop(s, room, cut) ==
    IF s = <<>> THEN <<>>
    ELSE LET r == Head(s)
             over == (r.n - room) % FgetsMax
             kept == IF r.b = NUL THEN 0
                     ELSE IF ~cut THEN r.n
                     ELSE IF r.b = NL THEN r.n - 1
                     ELSE Max(r.n - room, 0)
             room2 == IF r.b = NL THEN FgetsMax
                      ELSE IF r.n < room THEN room - r.n
                      ELSE FgetsMax - over
             cut2 == IF r.b = NL THEN FALSE
                     ELSE IF r.n < room THEN (cut \/ r.b = NUL)
                     ELSE (r.b = NUL /\ over > 0)
         IN Fill(r.b, kept) \o FgetsLoop(Tail(s), room2, cut2)

\* the output buffer after the loop: NULL when no fgets() call succeeded
EngineOutput(written) ==
    [null |-> written = <<>>, str |-> Norm(FgetsLoop(written, FgetsMax, FALSE))]

\* the output buffer the cd branch returns: malloc(1) holding "" (lines
\* 111-113)
EmptyOutput == [null |-> FALSE, str |-> <<>>]

\* an engine without the built-in: every command goes to popen()
IsCd_never(command) == FALSE

\* the test for the cd built-in: command[0] == 'c' && command[1] == 'd' &&
\* command[2] == ' '
IsCd(command) ==
    /\ BLen(CStr(command)) >= 3
    /\ Expand(TakeBytes(CStr(command), 3)) = <<"c", "d", " ">>

\* a chdir() that succeeds on every path
ChdirOk_always(command) == TRUE

\* chdir (command + 3) succeeds
ChdirOk(command) == Norm(CStr(DropBytes(command, 3))) \in ValidDirs

\* the write of the input to the pipe blocks for ever when the input does not
\* fit the pipe's buffer: nothing reads the pipe before popen()
PipeBlocks(input) == strlen(input) > PipeCapacity

\* ------------------------------------------------------------------------
\* request_handler (the child)
\* ------------------------------------------------------------------------
\* bytes of the coordinator's that the handler has not read yet
ReqRem == BLen(req.rest)

\* the bytes a read() returning ret takes off the request connection
ReqData(ret) == TakeBytes(req.rest, Max(ret, 0))

ReqConsume(ret) == req' = [req EXCEPT !.rest = DropBytes(@, Max(ret, 0))]

\* a variant of accept() that waits while the shell handler has a command
\* unanswered
req_accept_serial ==
    /\ pc[ChildPid] = "Listening"
    /\ pc[ParentPid] # "AwaitingReply"
    /\ conns_left > 0
    /\ conns_left' = conns_left - 1
    /\ \E s \in RequestScripts :
         req' = [stream |-> s.bytes, rest |-> s.bytes, fate |-> s.fate]
    /\ conn' = [open |-> conn.open + 1, calls |-> 0, frames |-> 0]
    /\ Goto(ChildPid, "HeaderCommand")
    /\ UNCHANGED <<msg, cmd_hdr, inp_hdr, inp_size, inp, cmd, cwd, engine,
                   last_write, short, shellVars, fixedVars>>

\* accept(): the coordinator has connected and sends a request (line 291)
req_accept ==
    /\ pc[ChildPid] = "Listening"
    /\ conns_left > 0
    /\ conns_left' = conns_left - 1
    /\ \E s \in RequestScripts :
         req' = [stream |-> s.bytes, rest |-> s.bytes, fate |-> s.fate]
    /\ conn' = [open |-> conn.open + 1, calls |-> 0, frames |-> 0]
    /\ Goto(ChildPid, "HeaderCommand")
    /\ UNCHANGED <<msg, cmd_hdr, inp_hdr, inp_size, inp, cmd, cwd, engine,
                   last_write, short, shellVars, fixedVars>>

\* read (serv_sock, cmd_hdr, HEADER_SIZE): lines 296-304
req_read_cmd_hdr ==
    /\ pc[ChildPid] = "HeaderCommand"
    /\ ReadReady(HEADER_SIZE, ReqRem, req.fate)
    /\ \E bytes_read \in ReadRets(HEADER_SIZE, ReqRem, req.fate) :
          /\ ReqConsume(bytes_read)
          /\ short' = [short EXCEPT ![ChildPid] = @ \/ bytes_read < HEADER_SIZE]
          /\ IF ReadFatal(bytes_read)
             THEN /\ Exit(ChildPid, "read", getppid(ChildPid))
                  /\ UNCHANGED cmd_hdr
             ELSE /\ \E g \in GarbageFor(bytes_read, HEADER_SIZE) :
                       cmd_hdr' = HeaderBuffer(Expand(ReqData(bytes_read)), g)
                  /\ Goto(ChildPid, "HeaderInput")
    /\ UNCHANGED <<msg, conns_left, inp_hdr, inp_size, inp, cmd, cwd, engine,
                   conn, last_write, shellVars, fixedVars>>

\* read (serv_sock, inp_hdr, HEADER_SIZE) and the test of its tag:
\* lines 306-321, 327-332
req_read_inp_hdr ==
    /\ pc[ChildPid] = "HeaderInput"
    /\ ReadReady(HEADER_SIZE, ReqRem, req.fate)
    /\ \E bytes_read \in ReadRets(HEADER_SIZE, ReqRem, req.fate) :
          /\ ReqConsume(bytes_read)
          /\ short' = [short EXCEPT ![ChildPid] = @ \/ bytes_read < HEADER_SIZE]
          /\ IF ReadFatal(bytes_read)
             THEN /\ Exit(ChildPid, "read", getppid(ChildPid))
                  /\ UNCHANGED <<inp_hdr, inp_size>>
             ELSE \E g \in GarbageFor(bytes_read, HEADER_SIZE) :
                    /\ inp_hdr' = HeaderBuffer(Expand(ReqData(bytes_read)), g)
                    /\ IF TagOk(inp_hdr', "i")
                       THEN /\ Goto(ChildPid, "BodyInput")
                            /\ inp_size' = HeaderLength(inp_hdr')
                       ELSE /\ Exit(ChildPid, "tag", getppid(ChildPid))
                            /\ UNCHANGED inp_size
    /\ UNCHANGED <<msg, conns_left, cmd_hdr, inp, cmd, cwd, engine, conn, last_write,
                   shellVars, fixedVars>>

\* read (serv_sock, inp, inp_size), unchecked, then the test of the command
\* header's tag: lines 321-325, 335-337, 344-349.  A negative inp_size is
\* as in shell_read_output.
req_read_inp ==
    /\ pc[ChildPid] = "BodyInput"
    /\ ReadReady(inp_size, ReqRem, req.fate)
    /\ \E bytes_read \in ReadRets(inp_size, ReqRem, req.fate) :
          /\ ReqConsume(bytes_read)
          /\ short' = [short EXCEPT ![ChildPid] =
                         @ \/ bytes_read < AsSizeT(inp_size)]
          /\ \E g \in GarbageFor(bytes_read, inp_size) :
               inp' = BodyBuffer(ReqData(bytes_read), inp_size, g)
    /\ \/ /\ inp_size < 0
          /\ Crash(ChildPid)
       \/ /\ inp_size >= 0 - 1
          /\ IF TagOk(cmd_hdr, "c")
             THEN Goto(ChildPid, "BodyCommand")
             ELSE Exit(ChildPid, "tag", getppid(ChildPid))
    /\ UNCHANGED <<msg, conns_left, cmd_hdr, inp_hdr, inp_size, cmd, cwd, engine,
                   conn, last_write, shellVars, fixedVars>>

\* read (serv_sock, cmd, cmd_size), unchecked: lines 337-342
req_read_cmd ==
    /\ pc[ChildPid] = "BodyCommand"
    /\ LET cmd_size == HeaderLength(cmd_hdr)
       IN /\ ReadReady(cmd_size, ReqRem, req.fate)
          /\ \E bytes_read \in ReadRets(cmd_size, ReqRem, req.fate) :
                /\ ReqConsume(bytes_read)
                /\ short' = [short EXCEPT ![ChildPid] =
                               @ \/ bytes_read < AsSizeT(cmd_size)]
                /\ \E g \in GarbageFor(bytes_read, cmd_size) :
                     cmd' = BodyBuffer(ReqData(bytes_read), cmd_size, g)
          /\ \/ /\ cmd_size < 0
                /\ Crash(ChildPid)
             \/ /\ cmd_size >= 0 - 1
                /\ Goto(ChildPid, "Executing")
    /\ UNCHANGED <<msg, conns_left, cmd_hdr, inp_hdr, inp_size, inp, cwd, engine,
                   conn, last_write, shellVars, fixedVars>>

\* request_handler with the output execute_on_current_node returned:
\* strlen(output), get_header_str, strcpy, strcat (lines 355-358).
\* When output is NULL, strlen(NULL) is undefined: the read of address 0
\* kills the process with SIGSEGV, or the build takes the output for an
\* empty string.
ReqFrame(output) ==
    LET size == strlen(output.str)
    IN \/ /\ output.null
          /\ Crash(ChildPid)
          /\ UNCHANGED msg
       \/ /\ HeaderTooLong(size)
          /\ Exit(ChildPid, "too long", HeaderKillPid(ChildPid))
          /\ UNCHANGED msg
       \/ /\ ~HeaderTooLong(size)
          /\ Goto(ChildPid, "Replying")
          /\ msg' = [msg EXCEPT ![ChildPid] =
                       Cat(Bytes(get_header_str("o", size)), CStr(output.str))]

\* the call execute_on_current_node(inp, cmd) as far as it got
EngineCall(launched, written, returned, output) ==
    [called |-> TRUE, input |-> inp, command |-> cmd, launched |-> launched,
     dir |-> IF launched THEN cwd ELSE <<>>,
     stdin |-> IF launched THEN Norm(CStr(inp)) ELSE <<>>,
     written |-> written, returned |-> returned, output |-> output]

\* output = execute_on_current_node(inp, cmd) and the framing of the output:
\* lines 102-149, 352-358
req_execute ==
    /\ pc[ChildPid] = "Executing"
    /\ conn' = [conn EXCEPT !.calls = @ + 1]
    /\ IF IsCd(cmd)
       THEN /\ cwd' = IF ChdirOk(cmd) THEN Norm(CStr(DropBytes(cmd, 3))) ELSE cwd
            /\ engine' = EngineCall(FALSE, <<>>, TRUE, EmptyOutput)
            /\ ReqFrame(EmptyOutput)
       ELSE /\ UNCHANGED cwd
            /\ IF PipeBlocks(inp)
               THEN /\ engine' = EngineCall(FALSE, <<>>, FALSE, NoOutput)
                    /\ Goto(ChildPid, "PipeBlocked")
                    /\ UNCHANGED msg
               ELSE \/ /\ engine' = EngineCall(FALSE, <<>>, FALSE, NoOutput)
                       /\ Exit(ChildPid, "popen", getppid(ChildPid))
                       /\ UNCHANGED msg
                    \/ \E written \in SubprocessOutputs \ {<<>>} :
                         /\ engine' = EngineCall(TRUE, written, FALSE, NoOutput)
                         /\ Exit(ChildPid, "realloc", getppid(ChildPid))
                         /\ UNCHANGED msg
                    \/ \E written \in SubprocessOutputs :
                         /\ engine' = EngineCall(TRUE, written, TRUE,
                                                 EngineOutput(written))
                         /\ ReqFrame(EngineOutput(written))
    /\ UNCHANGED <<conns_left, req, cmd_hdr, inp_hdr, inp_size, inp, cmd,
                   last_write, short, shellVars, fixedVars>>

\* write(serv_sock, msg, strlen(msg)), its two tests, the frees and
\* close (serv_sock): lines 359-377
req_write ==
    /\ pc[ChildPid] = "Replying"
    /\ LET m == msg[ChildPid]
       IN \/ \E ret \in WriteResults(strlen(m)) :
               /\ last_write' = [last_write EXCEPT ![ChildPid] =
                                   [msg |-> TakeBytes(m, ret), len |-> strlen(m),
                                    ret |-> ret]]
               /\ IF WriteFatal(ret, strlen(m))
                  THEN /\ Exit(ChildPid,
                               IF ret < 0 THEN "write" ELSE "partial write",
                               getppid(ChildPid))
                       /\ UNCHANGED conn
                  ELSE /\ Goto(ChildPid, "Closing")
                       /\ conn' = [conn EXCEPT !.frames = @ + 1]
          \/ /\ WriteRaisesSigPipe(req.fate)
             /\ last_write' = [last_write EXCEPT ![ChildPid] =
                                 [msg |-> <<>>, len |-> strlen(m), ret |-> 0 - 1]]
             /\ SigPipe(ChildPid)
             /\ UNCHANGED conn
    /\ msg' = [msg EXCEPT ![ChildPid] = <<>>]
    /\ UNCHANGED <<short, shellVars, conns_left, req, cmd_hdr, inp_hdr, inp_size,
                   inp, cmd, cwd, engine, fixedVars>>

\* a variant of close() that leaves the connection open
CloseConn_leak(c) == c

\* close (serv_sock): line 377
CloseConn(c) == [c EXCEPT !.open = @ - 1]

\* free (...), close (serv_sock) and back to accept(): lines 373-377, 288
req_close ==
    /\ pc[ChildPid] = "Closing"
    /\ Goto(ChildPid, "Listening")
    /\ req' = NoConn
    /\ cmd_hdr' = <<>>
    /\ inp_hdr' = <<>>
    /\ inp_size' = 0
    /\ inp' = <<>>
    /\ cmd' = <<>>
    /\ engine' = NoCall
    /\ conn' = CloseConn(conn)
    /\ last_write' = [last_write EXCEPT ![ChildPid] = NoWrite]
    /\ short' = [short EXCEPT ![ChildPid] = FALSE]
    /\ UNCHANGED <<msg, conns_left, cwd, shellVars, fixedVars>>

\* ------------------------------------------------------------------------
\* The agent
\* ------------------------------------------------------------------------
deliver_sigusr1 == \E self \in Procs : sigusr1_handler(self)

Next ==
    \/ shell_getline
    \/ shell_write
    \/ shell_read_header
    \/ shell_read_output
    \/ coordinator_reply
    \/ req_accept
    \/ req_read_cmd_hdr
    \/ req_read_inp_hdr
    \/ req_read_inp
    \/ req_read_cmd
    \/ req_execute
    \/ req_write
    \/ req_close
    \/ deliver_sigusr1

Spec == Init /\ [][Next]_vars

\* the scheduler runs a process that can take a step, and the kernel delivers
\* a pending signal; nothing makes the operator type, the coordinator connect
\* or answer, or a peer send the bytes a read() waits for
ShellStep == shell_write \/ shell_read_header \/ shell_read_output

RequestStep ==
    \/ req_read_cmd_hdr
    \/ req_read_inp_hdr
    \/ req_read_inp
    \/ req_read_cmd
    \/ req_execute
    \/ req_write
    \/ req_close

FairSpec ==
    /\ Spec
    /\ WF_vars(ShellStep)
    /\ WF_vars(RequestStep)
    /\ WF_vars(sigusr1_handler(ParentPid))
    /\ WF_vars(sigusr1_handler(ChildPid))

\* ------------------------------------------------------------------------
\* The codec on its own: get_header_str applied to a tag and a size, and the
\* handlers' decoding applied to the header it returns
\* ------------------------------------------------------------------------
Aborted == <<"exit(1)">>

InitCodec ==
    /\ AgentStart([lines |-> 0, conns |-> 0, segmented |-> FALSE])
    /\ encTag \in Tags
    /\ encSize \in CodecSizes
    /\ encOut = <<>>
    /\ decOut = <<>>

\* get_header_str(encTag, encSize) returns a header
codec_encode ==
    /\ encOut = <<>>
    /\ ~HeaderTooLong(encSize)
    /\ encOut' = get_header_str(encTag, encSize)
    /\ UNCHANGED <<encTag, encSize, decOut, agentVars>>

\* get_header_str(encTag, encSize) exits
codec_abort ==
    /\ encOut = <<>>
    /\ HeaderTooLong(encSize)
    /\ encOut' = Aborted
    /\ UNCHANGED <<encTag, encSize, decOut, agentVars>>

\* the handlers' decoding: hdr[0] and atoi(hdr+1)
codec_decode ==
    /\ encOut \notin {<<>>, Aborted}
    /\ decOut = <<>>
    /\ decOut' = <<HeaderTag(encOut), HeaderLength(encOut)>>
    /\ UNCHANGED <<encTag, encSize, encOut, agentVars>>

NextCodec == codec_encode \/ codec_abort \/ codec_decode

SpecCodec == InitCodec /\ [][NextCodec]_vars


\* ------------------------------------------------------------------------
\* Properties
\* ------------------------------------------------------------------------
\* write() in process p stored bytes on its connection in this step
WroteBytes(p) == last_write'[p] # last_write[p] /\ last_write'[p].ret > 0

\* the last write() of process p failed or accepted less than the frame
WriteFailed(p) == last_write[p] # NoWrite /\ last_write[p].ret < last_write[p].len

AllTerminated == \A q \in Procs : ~Alive(q)

\* C1: joint termination.  Whenever one of the two contexts has terminated,
\* for whatever reason, the other one eventually terminates too.
C1_JointTermination ==
    \A p \in Procs : (~Alive(p)) ~> AllTerminated

\* C2 as stated: once the shell handler has processed the line `exit`, no
\* process of the agent writes a byte on either connection.
C2_NoWriteAfterExit ==
    [][exit_cause[ParentPid] = "exit" => \A p \in Procs : ~WroteBytes(p)]_vars

\* C2: when the shell handler reads the line `exit` it sends no command frame
\* for it and never writes again, the request handler has been signalled, and
\* both contexts eventually terminate; the request handler writes nothing
\* once the signal has been delivered to it, but may still write a reply
\* frame while the signal is pending.
C2_ExitStopsAgent ==
    /\ [](exit_cause[ParentPid] = "exit" =>
            /\ pc[ParentPid] = "Terminated"
            /\ last_write[ParentPid] = NoWrite
            /\ msg[ParentPid] = <<>>
            /\ (ChildPid \in sigusr1 \/ ~Alive(ChildPid)))
    /\ [][exit_cause[ParentPid] = "exit" =>
            /\ ~WroteBytes(ParentPid)
            /\ (ChildPid \notin sigusr1 => ~WroteBytes(ChildPid))]_vars
    /\ (exit_cause[ParentPid] = "exit") ~> AllTerminated

\* the shell handler has read `exit` and the request handler, which had
\* written a reply, has been terminated by the signal
C2_Witness ==
    /\ exit_cause[ParentPid] = "exit"
    /\ exit_cause[ChildPid] = "SIGUSR1"
    /\ last_write[ChildPid].ret > 0

\* the n bytes of byte string s from 0-based index at
Slice(s, at, n) == Norm(TakeBytes(DropBytes(s, at), n))

\* a request stream that is two headers with tags c and i and five digits
\* each, followed by exactly the bytes they declare
WellFormedRequest(s) ==
    /\ BLen(s) >= 2 * HEADER_SIZE
    /\ LET h == Expand(TakeBytes(s, 2 * HEADER_SIZE))
       IN /\ h[1] = "c"
          /\ h[HEADER_SIZE + 1] = "i"
          /\ \A k \in (2..HEADER_SIZE) \cup ((HEADER_SIZE + 2)..(2 * HEADER_SIZE)) :
                IsDigit(h[k])
          /\ BLen(s) = 2 * HEADER_SIZE + HeaderLength(SubSeq(h, 1, HEADER_SIZE))
                         + HeaderLength(SubSeq(h, HEADER_SIZE + 1, 2 * HEADER_SIZE))

\* the command length and the input length a well-formed request declares
DeclaredCommandLength(s) == HeaderLength(Expand(TakeBytes(s, HEADER_SIZE)))

DeclaredInputLength(s) ==
    HeaderLength(Expand(TakeBytes(DropBytes(s, HEADER_SIZE), HEADER_SIZE)))

\* the input body and the command body of a well-formed request
InputBody(s) == Slice(s, 2 * HEADER_SIZE, DeclaredInputLength(s))

CommandBody(s) ==
    Slice(s, 2 * HEADER_SIZE + DeclaredInputLength(s), DeclaredCommandLength(s))

\* C3: when the engine is invoked for a well-formed request, its input is
\* the input body (the declared number of bytes after the two headers) and
\* its command is the command body (the declared number of bytes after the
\* input body).
C3_BodiesAligned ==
    (engine.called /\ WellFormedRequest(req.stream)) =>
        /\ Norm(engine.input) = InputBody(req.stream)
        /\ Norm(engine.command) = CommandBody(req.stream)

\* C4: the shell handler is never back at its prompt, nor writing the next
\* command frame, while bytes of an earlier reply frame (of its header or of
\* the payload the header declares) are still unread.
C4_NoUnreadReply ==
    pc[ParentPid] \in {"AwaitingInput", "Sending"} => unread = 0

\* C5: a handler whose read() returned fewer bytes than requested, or failed,
\* has terminated.
C5_ShortReadFatal ==
    \A p \in Procs : short[p] => pc[p] = "Terminated"

\* C6: a handler whose write() failed or accepted less than the whole frame
\* has terminated, with the sibling signalled or already gone.
C6_WriteFailureFatal ==
    \A p \in Procs : WriteFailed(p) =>
        /\ ~Alive(p)
        /\ \A q \in Procs \ {p} : q \in sigusr1 \/ ~Alive(q)

\* the first header the request handler read on this connection does not
\* carry tag c
BadFirstTag == cmd_hdr # <<>> /\ HeaderTag(cmd_hdr) # "c"

\* the second header it read does not carry tag i
BadSecondTag == inp_hdr # <<>> /\ HeaderTag(inp_hdr) # "i"

\* C7 as stated: after a header with the wrong tag the request handler
\* terminates, whatever the coordinator sends or fails to send next.
C7_TagMismatchTerminates ==
    (BadFirstTag \/ BadSecondTag) ~> ~Alive(ChildPid)

\* C7: after a header with the wrong tag the request handler never invokes
\* the engine and never writes a reply.  A wrong second tag terminates it at
\* once, with the parent signalled.  A wrong first tag is only tested after
\* the second header and the input body have been read: until then the
\* handler waits in those reads, and it terminates, with the parent
\* signalled, when it gets to the test.
C7_TagMismatchSafe ==
    /\ (BadFirstTag \/ BadSecondTag) =>
          /\ ~engine.called
          /\ last_write[ChildPid] = NoWrite
          /\ msg[ChildPid] = <<>>
          /\ pc[ChildPid] \in {"HeaderInput", "BodyInput", "Terminated", "Crashed"}
    /\ BadSecondTag => pc[ChildPid] = "Terminated"
    /\ exit_cause[ChildPid] = "tag" =>
          /\ BadFirstTag \/ BadSecondTag
          /\ ParentPid \in sigusr1 \/ ~Alive(ParentPid)

\* the first header had a wrong tag, the second one was right, and the
\* handler got to the test of the first tag and exited
C7_Witness ==
    /\ BadFirstTag
    /\ ~BadSecondTag
    /\ inp_hdr # <<>>
    /\ exit_cause[ChildPid] = "tag"
    /\ ~engine.called

\* the payload length beyond which get_header_str gives up
MaxPayload == 10 ^ (HEADER_SIZE - 1) - 1

\* C8: no frame with a payload of 100000 bytes or more is ever built or
\* written; the handler that meets such a payload terminates in
\* get_header_str without having written a byte of the frame, and both
\* contexts eventually terminate, whether the parent or the child met it.
C8_OversizeRejected ==
    /\ [](\A p \in Procs :
            /\ BLen(msg[p]) <= HEADER_SIZE + MaxPayload
            /\ last_write[p].len <= HEADER_SIZE + MaxPayload
            /\ exit_cause[p] = "too long" =>
                  /\ pc[p] = "Terminated"
                  /\ last_write[p] = NoWrite
                  /\ \A q \in Procs \ {p} : q \in sigusr1 \/ ~Alive(q))
    /\ \A p \in Procs : (exit_cause[p] = "too long") ~> AllTerminated

\* the child met an execution result of 100000 bytes, and its kill(0, ...)
\* has terminated the parent
C8_Witness ==
    /\ exit_cause[ChildPid] = "too long"
    /\ exit_cause[ParentPid] = "SIGUSR1"
    /\ engine.called

\* the decimal digit of n at 10^k
DecimalDigit(n, k) == DigitChar[((n \div (10 ^ k)) % 10) + 1]

\* C9: for a tag in {c, o, i} and 0 <= n <= 99999, get_header_str returns
\* 6 characters, the tag and then n as 5 zero-padded decimal digits, and
\* decoding them (byte 0 as the tag, atoi of bytes 1-5) gives back (tag, n).
C9_HeaderRoundTrip ==
    (encSize <= MaxPayload /\ encOut # <<>>) =>
        /\ Len(encOut) = HEADER_SIZE
        /\ encOut[1] = encTag
        /\ \A k \in 1..(HEADER_SIZE - 1) :
              encOut[k + 1] = DecimalDigit(encSize, HEADER_SIZE - 1 - k)
        /\ decOut # <<>> => decOut = <<encTag, encSize>>

\* the header of an empty output, encoded as o00000 and decoded again
C9_Witness ==
    /\ encSize = 0
    /\ encOut = <<"o", "0", "0", "0", "0", "0">>
    /\ decOut = <<"o", 0>>

\* C10: for every frame a handler has written in full, the decimal length
\* in its header is the number of bytes written after the header.
C10_FrameLength ==
    \A p \in Procs :
        (last_write[p].ret > 0 /\ last_write[p].ret = last_write[p].len) =>
            HeaderLength(Expand(TakeBytes(last_write[p].msg, HEADER_SIZE)))
               = BLen(last_write[p].msg) - HEADER_SIZE

EmptyFrame == Norm(Bytes(<<"o", "0", "0", "0", "0", "0">>))

\* C12: when a command that is not the cd built-in has been launched and has
\* written nothing to its standard output, execute_on_current_node returns
\* an empty byte string, the frame to write is o00000, and the request
\* handler goes on (it is not killed).
C12_NoOutputEmptyResult ==
    (engine.launched /\ engine.returned /\ engine.written = <<>>) =>
        /\ ~engine.output.null
        /\ engine.output.str = <<>>
        /\ pc[ChildPid] # "Crashed"
        /\ pc[ChildPid] = "Replying" =>
              msg[ChildPid] = EmptyFrame

\* the command text begins with the literal `cd `
BeginsWithCd(command) ==
    /\ BLen(command) >= 3
    /\ Expand(TakeBytes(command, 3)) = <<"c", "d", " ">>

\* what may end the request handler once the engine has returned: the write
\* of the reply failing, or the shell handler's signal
ReplyEndings == {"", "write", "partial write", "SIGPIPE", "SIGUSR1"}

\* C13: for every command beginning with `cd `, whether chdir() succeeds or
\* fails, no subprocess is launched, the engine returns an empty result, the
\* frame the handler builds and writes is an output frame of length 0, and
\* the cd command ends neither context: the handler goes on to write, to
\* close and to the next accept().
C13_CdNeverFatal ==
    (engine.called /\ BeginsWithCd(engine.command)) =>
        /\ ~engine.launched
        /\ engine.returned
        /\ engine.output = [null |-> FALSE, str |-> <<>>]
        /\ pc[ChildPid] # "Crashed"
        /\ exit_cause[ChildPid] \in ReplyEndings
        /\ Alive(ChildPid) => pc[ChildPid] \in {"Replying", "Closing"}
        /\ pc[ChildPid] = "Replying" =>
              /\ msg[ChildPid] = EmptyFrame
              /\ ENABLED req_write
        /\ pc[ChildPid] = "Closing" =>
              /\ last_write[ChildPid].msg = EmptyFrame
              /\ ENABLED req_close

\* a cd to a directory that does not exist has been answered with o00000
\* and the handler is about to close the connection
C13_Witness ==
    /\ pc[ChildPid] = "Closing"
    /\ Norm(CStr(engine.command)) = Bytes(<<"c", "d", " ", "x">>)
    /\ ~ChdirOk(engine.command)
    /\ last_write[ChildPid].msg = EmptyFrame
    /\ last_write[ChildPid].ret = HEADER_SIZE

\* the path a cd command names: the text after `cd `
CdTarget(command) == Norm(CStr(DropBytes(command, 3)))

\* the request handler is executing a cd command whose directory exists
SuccessfulCd ==
    /\ pc[ChildPid] = "Executing"
    /\ BeginsWithCd(cmd)
    /\ CdTarget(cmd) \in ValidDirs

\* C14: the working directory changes only when a cd command succeeds, and
\* then to that command's target; a failed cd and every other command leave
\* it as it is; and a subprocess is launched in the working directory of
\* that moment.  Hence the next subprocess runs in the target of the most
\* recent successful cd, or in the startup directory if there was none.
C14_WorkingDirectory ==
    /\ [](engine.launched => engine.dir = cwd)
    /\ [][/\ cwd' # cwd => (SuccessfulCd /\ cwd' = CdTarget(cmd))
          /\ (SuccessfulCd /\ engine'.called) => cwd' = CdTarget(cmd)
          /\ (~SuccessfulCd /\ engine'.called) => cwd' = cwd]_vars

\* after a successful `cd d` on an earlier connection, a subprocess has been
\* launched in d
C14_Witness ==
    /\ engine.launched
    /\ engine.returned
    /\ ~BeginsWithCd(engine.command)
    /\ engine.dir = Bytes(<<"d">>)
    /\ cwd = Bytes(<<"d">>)

\* a header buffer whose bytes 1-5 are not five decimal digits
Malformed(hdr) == hdr # <<>> /\ \E k \in 2..HEADER_SIZE : ~IsDigit(hdr[k])

\* C15: once the request handler has read, in full, a header whose bytes 1-5
\* are not five decimal digits, it does not go on with the exchange: it
\* never calls the engine on that connection.
C15_MalformedHeaderFatal ==
    (~short[ChildPid] /\ (Malformed(cmd_hdr) \/ Malformed(inp_hdr))) =>
        /\ ~engine.called
        /\ pc[ChildPid] \notin {"Executing", "PipeBlocked", "Replying", "Closing"}

\* the text of an operator line: the line without its trailing newline, if
\* it has one
LineText(line) ==
    IF line # <<>> /\ ByteAt(line, BLen(line) - 1) = NL
    THEN TakeBytes(line, BLen(line) - 1)
    ELSE line

\* C16: for an operator line (here: one without a zero byte) that the shell
\* handler is about to send, the frame is a command header followed by the
\* line's text with only its trailing newline removed, a final line without
\* a newline being sent unchanged; for a line that is only a newline
\* nothing is to be written and the handler is back at the prompt.
C16_LineFraming ==
    /\ (pc[ParentPid] = "Sending" /\ CStr(cmd_line) = cmd_line) =>
          msg[ParentPid] = Cat(Bytes(get_header_str("c", BLen(LineText(cmd_line)))),
                               LineText(cmd_line))
    /\ (cmd_line = Bytes(<<NL>>) /\ Alive(ParentPid)) =>
          /\ pc[ParentPid] = "AwaitingInput"
          /\ msg[ParentPid] = <<>>

\* C17: every call of execute_on_current_node comes to an end: the request
\* handler does not stay in the call for ever, whatever the length of the
\* input (the subprocesses of the model all close their standard output).
C17_EngineReturns ==
    (pc[ChildPid] = "Executing") ~>
        (pc[ChildPid] \notin {"Executing", "PipeBlocked"})

\* C18: when a launched subprocess has written something and the call has
\* returned, the subprocess has received exactly the bytes of the input as
\* its standard input and the result is exactly the bytes it wrote, in
\* order, zero bytes and lines longer than the read buffer included.
C18_ByteExact ==
    (engine.launched /\ engine.returned /\ engine.written # <<>>) =>
        /\ engine.stdin = Norm(engine.input)
        /\ ~engine.output.null
        /\ engine.output.str = Norm(engine.written)

\* read() on the request connection has something to return
ReqReadable(n) == ReadReady(n, ReqRem, req.fate)

\* read() on the command connection has something to return
SrvReadable(n) == ReadReady(n, Len(srv.stream), srv.fate)

\* C19: neither context waits on the other.  Wherever the shell handler is,
\* the request handler's next step is enabled as soon as its own peer has
\* done its part (a coordinator connects, bytes or the end of the request
\* connection have arrived): accept, the four reads, the engine call, the
\* write of the reply and close.  Wherever the request handler is, the shell
\* handler's next step is enabled likewise: the prompt, the write of the
\* command and the two reads of the reply.
C19_Independent ==
    /\ (pc[ChildPid] = "Listening" /\ conns_left > 0) => ENABLED req_accept
    /\ pc[ChildPid] = "HeaderCommand" =>
          (ENABLED req_read_cmd_hdr <=> ReqReadable(HEADER_SIZE))
    /\ pc[ChildPid] = "HeaderInput" =>
          (ENABLED req_read_inp_hdr <=> ReqReadable(HEADER_SIZE))
    /\ pc[ChildPid] = "BodyInput" =>
          (ENABLED req_read_inp <=> ReqReadable(inp_size))
    /\ pc[ChildPid] = "BodyCommand" =>
          (ENABLED req_read_cmd <=> ReqReadable(HeaderLength(cmd_hdr)))
    /\ pc[ChildPid] = "Executing" => ENABLED req_execute
    /\ pc[ChildPid] = "Replying" => ENABLED req_write
    /\ pc[ChildPid] = "Closing" => ENABLED req_close
    /\ pc[ParentPid] = "AwaitingInput" => ENABLED shell_getline
    /\ pc[ParentPid] = "Sending" => ENABLED shell_write
    /\ pc[ParentPid] = "AwaitingReply" =>
          (ENABLED shell_read_header <=> SrvReadable(HEADER_SIZE))
    /\ pc[ParentPid] = "ReadingReply" =>
          (ENABLED shell_read_output <=> SrvReadable(output_size))

\* the shell handler waits for the reply to a command the coordinator has
\* not answered, and meanwhile the request handler has accepted a
\* connection, executed the request and written its reply in full
C19_Witness ==
    /\ pc[ParentPid] = "AwaitingReply"
    /\ srv.owed > 0
    /\ srv.stream = <<>>
    /\ pc[ChildPid] = "Closing"
    /\ engine.returned
    /\ last_write[ChildPid].ret = last_write[ChildPid].len
    /\ last_write[ChildPid].ret >= HEADER_SIZE

\* the shell handler is at its prompt with the operator's input at its end
InputEnded == stdin_eof /\ pc[ParentPid] = "AwaitingInput"

\* the exits of the request handler that assert the lifecycle token
RequestFatal ==
    {"read", "tag", "popen", "realloc", "too long", "write", "partial write"}

\* C20: once the operator's input has ended the shell handler stays in its
\* input loop: getline() can always be called again, and a step from there
\* leaves the handler at the prompt, sends nothing, builds no frame and
\* signals nobody, unless it is the delivery of the SIGUSR1 that the request
\* handler sent on one of its fatal exits, which is the only way the shell
\* handler terminates.
C20_EndOfInput ==
    /\ [](InputEnded => ENABLED shell_getline)
    /\ [][InputEnded =>
            /\ ~WroteBytes(ParentPid)
            /\ msg'[ParentPid] = msg[ParentPid]
            /\ ChildPid \in sigusr1' => ChildPid \in sigusr1
            /\ \/ pc'[ParentPid] = "AwaitingInput" /\ stdin_eof'
               \/ /\ pc'[ParentPid] = "Terminated"
                  /\ exit_cause'[ParentPid] = "SIGUSR1"
                  /\ exit_cause[ChildPid] \in RequestFatal]_vars

\* getline() has reported the end of the input at least once and the shell
\* handler is at its prompt again, alive, with no signal pending anywhere,
\* while the request handler has serviced a connection
C20_Witness ==
    /\ InputEnded
    /\ cmd_line = <<>>
    /\ lines_left = 0
    /\ sigusr1 = {}
    /\ msg[ParentPid] = <<>>
    /\ pc[ChildPid] = "Closing"
====
